---- MODULE Spec2Model ----
(***************************************************************************)
(* Model of the Behavioral Instruction Compiler (behavioral_compiler.py):  *)
(* the pattern tables, the splitter, the classifier, the dependency graph  *)
(* builder, the Kahn-style topological sort and the directive generator,   *)
(* driven step by step as a state machine.  Texts are TLA+ strings; the    *)
(* regular expressions of the source are modelled by what re.search and    *)
(* re.split compute on them.                                               *)
(***************************************************************************)
EXTENDS Naturals, Integers, Sequences, FiniteSets, TLC

VARIABLES
    raw_text,          \* the text given to BehavioralCompiler(raw_text)
    raw_instructions,  \* self.raw_instructions
    parsed,            \* self.parsed
    graph,             \* self.graph: node -> set of nodes it depends on
    id_counter,        \* self.id_counter
    pc,                \* position of the caller / of the running method
    caller,            \* who called topological_sort: "compile" or "api"
    indeg, ready, order,   \* locals of topological_sort
    graph0,            \* the graph as it was when the last topological_sort started
    directives,        \* compile(): the rendered blocks before the join
    ret,               \* what the last finished call returned, or that it raised
    instance,          \* how many BehavioralCompiler objects were constructed
    calls,             \* compile() calls made on the current object
    sorts,             \* topological_sort() calls a caller made directly
    injected,          \* edges a caller added to self.graph by hand
    returns,           \* what every finished compile() call returned
    bundle, bundle_type,   \* classifier driver: its argument and its result
    args,              \* bootstrap.py: args.resume and args.force of the invocation
    checkpoint,        \* main(): the checkpoint dict loaded at start-up
    checkpoint_file,   \* build/.checkpoint.json on disk
    build_files,       \* the other files the stages write into build/
    boot_pc,           \* main(): the stage about to be called, or "shell"
    exit_code,         \* how the last invocation ended (-1: none ended yet)
    stage_results,     \* main(): stage1_result, stage2_result, ...
    visited,           \* the stages entered in this invocation
    model_calls,       \* the stages that called the model in this invocation
    runs,              \* invocations of bootstrap.py so far
    clock              \* datetime.now(), one tick per stage that reads it

vars == <<raw_text, raw_instructions, parsed, graph, id_counter, pc, caller,
          indeg, ready, order, graph0, directives, ret,
          instance, calls, sorts, injected, returns, bundle, bundle_type,
          args, checkpoint, checkpoint_file, build_files, boot_pc, exit_code,
          stage_results, visited, model_calls, runs, clock>>

-----------------------------------------------------------------------------
(* Characters *)

LowerLetters == "abcdefghijklmnopqrstuvwxyz"
UpperLetters == "ABCDEFGHIJKLMNOPQRSTUVWXYZ"
Digits == "0123456789"

CharsOf(s) == {SubSeq(s, k, k) : k \in 1..Len(s)}

\* \w of the re module, on ASCII text.
WordChars == CharsOf(LowerLetters) \cup CharsOf(UpperLetters) \cup CharsOf(Digits) \cup {"_"}

\* \s of the re module and the characters str.strip() removes, on ASCII text.
Whitespace == {" ", "\t", "\n", "\r", "\f"}

LowerOf == [c \in CharsOf(UpperLetters) |->
              LET k == CHOOSE j \in 1..Len(UpperLetters) : SubSeq(UpperLetters, j, j) = c
              IN  SubSeq(LowerLetters, k, k)]

UpperOf == [c \in CharsOf(LowerLetters) |->
              LET k == CHOOSE j \in 1..Len(LowerLetters) : SubSeq(LowerLetters, j, j) = c
              IN  SubSeq(UpperLetters, k, k)]

RECURSIVE MapChars(_, _, _)
MapChars(f, s, k) ==
    IF k > Len(s) THEN ""
    ELSE LET c == SubSeq(s, k, k)
         IN  (IF c \in DOMAIN f THEN f[c] ELSE c) \o MapChars(f, s, k + 1)

\* re.IGNORECASE: the patterns are lower case, the text is folded to lower case.
lower(s) == MapChars(LowerOf, s, 1)
\* str.upper()
upper(s) == MapChars(UpperOf, s, 1)

-----------------------------------------------------------------------------
(* Regular expressions of the pattern tables.  Every pattern of the source  *)
(* is an alternation; every alternative is: an optional \b, a literal, an   *)
(* optional character (x?), a literal, an optional \b.                      *)

Alt(lb, pre, opt, post, rb) == [lb |-> lb, pre |-> pre, opt |-> opt, post |-> post, rb |-> rb]

\* \bword\b, \bword, word\b, word
BWB(s) == Alt(TRUE, s, "", "", TRUE)
BW(s)  == Alt(TRUE, s, "", "", FALSE)
WB(s)  == Alt(FALSE, s, "", "", TRUE)
Lit(s) == Alt(FALSE, s, "", "", FALSE)
\* r"\\b(word)\\b": an escaped backslash followed by the letter b, on both sides
EscB(s) == Alt(FALSE, "\\b" \o s, "", "\\b", FALSE)

IsWordAt(t, k) == k >= 1 /\ k <= Len(t) /\ SubSeq(t, k, k) \in WordChars

\* \b holds just before position p of t
Boundary(t, p) == IsWordAt(t, p - 1) # IsWordAt(t, p)

MatchAt(t, i, lit) ==
    /\ i + Len(lit) - 1 <= Len(t)
    /\ SubSeq(t, i, i + Len(lit) - 1) = lit

AltMatchesAt(t, a, i) ==
    /\ MatchAt(t, i, a.pre)
    /\ a.lb => Boundary(t, i)
    /\ LET j == i + Len(a.pre)
       IN  \/ /\ a.opt # ""
              /\ MatchAt(t, j, a.opt \o a.post)
              /\ a.rb => Boundary(t, j + Len(a.opt) + Len(a.post))
           \/ /\ MatchAt(t, j, a.post)
              /\ a.rb => Boundary(t, j + Len(a.post))

\* re.search(pat, text, re.IGNORECASE) is not None, for t the text folded to
\* lower case
re_search(pat, t) ==
    \E k \in 1..Len(pat) : \E i \in 1..Len(t) : AltMatchesAt(t, pat[k], i)

TRIGGER_PATTERNS == <<
    [pat |-> <<BWB("at start"), BWB("conversation start"), BWB("initially"), BWB("first")>>,
     typ |-> "conversation_start"],
    [pat |-> <<BWB("before responding"), BWB("before output"), BWB("before returning")>>,
     typ |-> "pre_response"],
    [pat |-> <<BWB("after"), BWB("once"), BWB("when complete")>>,
     typ |-> "post_action"],
    [pat |-> <<BWB("always"), BWB("every time"), BWB("for each message")>>,
     typ |-> "every_message"],
    [pat |-> <<BWB("on user message"), BWB("when user"), BWB("if user asks")>>,
     typ |-> "on_user_message"],
    [pat |-> <<BWB("on success"), BWB("if succeeds"), BWB("after successful")>>,
     typ |-> "on_success"],
    [pat |-> <<BWB("on failure"), BWB("if fails")>>,
     typ |-> "on_failure"],
    [pat |-> <<BWB("if no match"), BWB("when not found"), BWB("if missing")>>,
     typ |-> "on_miss"],
    [pat |-> <<BWB("if found"), BWB("when matched"), BWB("if exists")>>,
     typ |-> "on_match"] >>

ACTION_PATTERNS == <<
    [pat |-> <<EscB("load"), EscB("fetch"), EscB("retrieve"), EscB("get"), EscB("read")>>,
     typ |-> "retrieve"],
    [pat |-> <<EscB("search"), EscB("query"), EscB("find"), EscB("look up"), EscB("check")>>,
     typ |-> "search"],
    [pat |-> <<EscB("store"), EscB("save"), EscB("persist"), EscB("write"), EscB("remember")>>,
     typ |-> "store"],
    [pat |-> <<EscB("create"), EscB("make"), EscB("add"), EscB("new")>>,
     typ |-> "create"],
    [pat |-> <<EscB("match"), EscB("compare"), EscB("check against"), EscB("map to")>>,
     typ |-> "match"],
    [pat |-> <<EscB("discover"), EscB("figure out"),
               Alt(FALSE, "\\bget ou", "t", "\\b", FALSE), EscB("determine")>>,
     typ |-> "discover"],
    [pat |-> <<EscB("use tools"), EscB("call"), EscB("invoke"), EscB("execute")>>,
     typ |-> "tool_call"],
    [pat |-> <<EscB("convert"), EscB("transform"), EscB("format"), EscB("apply")>>,
     typ |-> "transform"] >>

CONDITION_PATTERNS == <<
    [pat |-> <<BWB("if exists"), BWB("when present")>>,
     typ |-> "existence_positive"],
    [pat |-> <<BWB("if not"), BWB("if no"), BWB("if missing"), BWB("when absent")>>,
     typ |-> "existence_negative"],
    [pat |-> <<Alt(TRUE, "if matche", "s", "", TRUE), Alt(FALSE, "equal", "s", "", FALSE)>>,
     typ |-> "equality"],
    [pat |-> <<Alt(TRUE, "contain", "s", "", FALSE), Alt(FALSE, "include", "s", "", FALSE),
               WB("has")>>,
     typ |-> "containment"] >>

OBJECT_PATTERNS == <<
    [pat |-> <<BW("domain"), Lit("topic"), WB("namespace")>>,
     typ |-> "domain"],
    [pat |-> <<BW("route"), Lit("path"), WB("paths")>>,
     typ |-> "route"],
    [pat |-> <<BW("memory"), Lit("stored"), WB("saved")>>,
     typ |-> "memory"],
    [pat |-> <<BW("preference"), Alt(FALSE, "setting", "s", "", TRUE)>>,
     typ |-> "preference"],
    [pat |-> <<BW("keyword"), WB("trigger word")>>,
     typ |-> "keyword"],
    [pat |-> <<BW("result"), Lit("answer"), Lit("response"), WB("output")>>,
     typ |-> "result"] >>

RECURSIVE FirstMatchFrom(_, _, _)
FirstMatchFrom(patterns, t, k) ==
    IF k > Len(patterns) THEN ""
    ELSE IF re_search(patterns[k].pat, t) THEN patterns[k].typ
    ELSE FirstMatchFrom(patterns, t, k + 1)

\* the label of the first pattern, in the order of the table, found in text
find_first_match(patterns, text) == FirstMatchFrom(patterns, lower(text), 1)

extract_components(instruction) ==
    LET trigger == find_first_match(TRIGGER_PATTERNS, instruction)
    IN  [trigger   |-> IF trigger = "" THEN "every_message" ELSE trigger,
         action    |-> find_first_match(ACTION_PATTERNS, instruction),
         condition |-> find_first_match(CONDITION_PATTERNS, instruction),
         object    |-> find_first_match(OBJECT_PATTERNS, instruction)]

-----------------------------------------------------------------------------
(* Classifier *)

TriggerFallback(trigger) ==
    CASE trigger = "conversation_start" -> "LOOKUP"
      [] trigger = "on_miss"            -> "DISCOVER"
      [] trigger = "on_success"         -> "STORE"
      [] trigger = "pre_response"       -> "APPLY"
      [] OTHER                          -> "UNKNOWN"

\* the condition rule tried before the action rules
classify_condition_first(comp) ==
    LET action  == comp.action
        obj     == comp.object
        trigger == comp.trigger
    IN  IF comp.condition # "" THEN "GATE"
        ELSE IF action \in {"retrieve", "search", "load", "get"} /\ obj = "memory" THEN "LOOKUP"
        ELSE IF action = "match" \/ (action \in {"compare", "map"} /\ obj \in {"domain", "route"})
             THEN "MATCH"
        ELSE IF action \in {"discover", "tool_call"} THEN "DISCOVER"
        ELSE IF action \in {"store", "create"} THEN "STORE"
        ELSE IF action = "transform" THEN "APPLY"
        ELSE TriggerFallback(trigger)

classify_instruction(comp) ==
    LET action  == comp.action
        obj     == comp.object
        trigger == comp.trigger
    IN  IF action \in {"retrieve", "search", "load", "get"} /\ obj = "memory" THEN "LOOKUP"
        ELSE IF action = "match" \/ (action \in {"compare", "map"} /\ obj \in {"domain", "route"})
             THEN "MATCH"
        ELSE IF action \in {"discover", "tool_call"} THEN "DISCOVER"
        ELSE IF action \in {"store", "create"} THEN "STORE"
        ELSE IF action = "transform" THEN "APPLY"
        ELSE IF comp.condition # "" THEN "GATE"
        ELSE TriggerFallback(trigger)

-----------------------------------------------------------------------------
(* Splitter *)

IsDelimiter(c) == c \in {";", ",", "."}

\* first position >= k of t that holds no whitespace
RECURSIVE SkipSpace(_, _)
SkipSpace(t, k) ==
    IF k <= Len(t) /\ SubSeq(t, k, k) \in Whitespace THEN SkipSpace(t, k + 1) ELSE k

\* re.split(r"[;,.]\s*", text): start is where the current piece began
RECURSIVE re_split(_, _, _)
re_split(t, start, k) ==
    IF k > Len(t) THEN <<SubSeq(t, start, Len(t))>>
    ELSE IF IsDelimiter(SubSeq(t, k, k))
         THEN LET nxt == SkipSpace(t, k + 1)
              IN  <<SubSeq(t, start, k - 1)>> \o re_split(t, nxt, nxt)
         ELSE re_split(t, start, k + 1)

RECURSIVE LastNonSpace(_, _)
LastNonSpace(t, k) ==
    IF k >= 1 /\ SubSeq(t, k, k) \in Whitespace THEN LastNonSpace(t, k - 1) ELSE k

\* str.strip()
strip(t) == SubSeq(t, SkipSpace(t, 1), LastNonSpace(t, Len(t)))

RECURSIVE KeepNonEmpty(_)
KeepNonEmpty(parts) ==
    IF parts = << >> THEN << >>
    ELSE (IF strip(Head(parts)) # "" THEN <<strip(Head(parts))>> ELSE << >>)
         \o KeepNonEmpty(Tail(parts))

split_compound(text) == KeepNonEmpty(re_split(text, 1, 1))

-----------------------------------------------------------------------------
(* Dependency graph builder.  The graph is the set of pairs <<u, v>> with   *)
(* u in self.graph[v]: v depends on u.  A key of the defaultdict that holds *)
(* the empty set is not told apart from a missing key.                      *)

\* the table with the second prerequisite of APPLY left out
TYPE_DEPENDENCIES_ApplyMatchOnly(typ) ==
    CASE typ = "MATCH"    -> {"LOOKUP"}
      [] typ = "DISCOVER" -> {"MATCH"}
      [] typ = "STORE"    -> {"DISCOVER"}
      [] typ = "APPLY"    -> {"MATCH"}
      [] OTHER            -> {}

TYPE_DEPENDENCIES(typ) ==
    CASE typ = "LOOKUP"   -> {}
      [] typ = "MATCH"    -> {"LOOKUP"}
      [] typ = "DISCOVER" -> {"MATCH"}
      [] typ = "STORE"    -> {"DISCOVER"}
      [] typ = "APPLY"    -> {"MATCH", "DISCOVER"}
      [] typ = "GATE"     -> {}
      [] OTHER            -> {}

PRIORITY(typ) ==
    CASE typ = "LOOKUP"   -> 1
      [] typ = "MATCH"    -> 2
      [] typ = "GATE"     -> 3
      [] typ = "DISCOVER" -> 4
      [] typ = "STORE"    -> 5
      [] typ = "APPLY"    -> 6
      [] typ = "UNKNOWN"  -> 7
      [] OTHER            -> 99

Deps(g, v) == {e[1] : e \in {x \in g : x[2] = v}}

\* type_to_ids[t], as a set
type_to_ids(ps, t) == {ps[k].id : k \in {j \in 1..Len(ps) : ps[j].type = t}}

TypeEdges(ps) ==
    UNION {{<<dep_id, ps[k].id>> :
               dep_id \in {d \in UNION {type_to_ids(ps, t) : t \in TYPE_DEPENDENCIES(ps[k].type)} :
                              d < ps[k].id}} :
           k \in 1..Len(ps)}

\* the sequential edge the wrong way round: graph[i-1].add(i)
SequentialEdgeReversed(i) == <<i, i - 1>>

SequentialEdge(i) == <<i - 1, i>>

\* the sequential edges left out
SequentialEdgesMissing(ps) == {}

\* the loop of lines 144-145 stopped after its first round
SequentialEdgesFirstOnly(ps) == {SequentialEdge(i) : i \in {j \in {1} : j <= Len(ps) - 1}}

SequentialEdges(ps) == {SequentialEdge(i) : i \in 1..(Len(ps) - 1)}

build_dependency_graph(g, ps) == g \cup TypeEdges(ps) \cup SequentialEdges(ps)

-----------------------------------------------------------------------------
(* Topological sorter *)

Nodes(ps) == 0..(Len(ps) - 1)

\* "indeg[node] += 1" in place of "+= len(deps)"
InitialIndegOne(g, ps) == [i \in Nodes(ps) |-> IF Deps(g, i) = {} THEN 0 ELSE 1]

\* indeg after lines 148-150
InitialIndeg(g, ps) == [i \in Nodes(ps) |-> Cardinality(Deps(g, i))]

RECURSIVE Ascending(_)
Ascending(S) ==
    IF S = {} THEN << >>
    ELSE LET m == CHOOSE x \in S : \A y \in S : x <= y
         IN  <<m>> \o Ascending(S \ {m})

\* ready after line 151: dict order is the order of range(len(parsed))
InitialReady(ind) == Ascending({i \in DOMAIN ind : ind[i] = 0})

\* the sort key without the priority: the original index alone
KeyLessIndexOnly(ps, a, b) == a < b

\* the sort key (PRIORITY.get(type, 99), x), compared as tuples
KeyLess(ps, a, b) ==
    LET pa == PRIORITY(ps[a + 1].type)
        pb == PRIORITY(ps[b + 1].type)
    IN  pa < pb \/ (pa = pb /\ a < b)

Range(seq) == {seq[k] : k \in 1..Len(seq)}

\* ready.sort(key=...): list.sort is stable, equal keys keep their order
RECURSIVE SortReady(_, _)
SortReady(ps, rdy) ==
    IF rdy = << >> THEN << >>
    ELSE LET k == CHOOSE j \in 1..Len(rdy) :
                     /\ \A i \in 1..Len(rdy) : ~KeyLess(ps, rdy[i], rdy[j])
                     /\ \A i \in 1..(j - 1) : KeyLess(ps, rdy[j], rdy[i])
             rest == SubSeq(rdy, 1, k - 1) \o SubSeq(rdy, k + 1, Len(rdy))
         IN  <<rdy[k]>> \o SortReady(ps, rest)

\* the test "indeg[nxt] == 0" left out
BecomesReadyAlways(ind, nxt) == TRUE

\* lines 160-163 for one nxt: the node becomes ready when its count reaches 0
BecomesReady(ind, nxt) == ind[nxt] - 1 = 0

\* the inner loop without line 161: the consumed edges stay in the graph
RECURSIVE ReleaseKeepingEdges(_, _, _, _, _, _)
ReleaseKeepingEdges(n, nxt, len, ind, g, rdy) ==
    IF nxt >= len THEN [indeg |-> ind, graph |-> g, ready |-> rdy]
    ELSE IF <<n, nxt>> \in g
         THEN ReleaseKeepingEdges(n, nxt + 1, len,
                                  [ind EXCEPT ![nxt] = @ - 1],
                                  g,
                                  IF BecomesReady(ind, nxt) THEN Append(rdy, nxt) ELSE rdy)
         ELSE ReleaseKeepingEdges(n, nxt + 1, len, ind, g, rdy)

\* lines 158-163 from nxt on: [indeg, graph, ready] after the inner loop
RECURSIVE Release(_, _, _, _, _, _)
Release(n, nxt, len, ind, g, rdy) ==
    IF nxt >= len THEN [indeg |-> ind, graph |-> g, ready |-> rdy]
    ELSE IF <<n, nxt>> \in g
         THEN Release(n, nxt + 1, len,
                      [ind EXCEPT ![nxt] = @ - 1],
                      g \ {<<n, nxt>>},
                      IF BecomesReady(ind, nxt) THEN Append(rdy, nxt) ELSE rdy)
         ELSE Release(n, nxt + 1, len, ind, g, rdy)

-----------------------------------------------------------------------------
(* Directive generator *)

generate_directive(entry) ==
    LET typ  == entry.type
        comp == entry.components
        obj  == IF comp.object # "" THEN comp.object ELSE "data"
    IN  CASE typ = "LOOKUP" ->
               "AT THE START OF EVERY CONVERSATION:\n" \o
               "Search memory for \"" \o obj \o
               ":*\" and load all results. YOU MUST do this before anything else."
          [] typ = "MATCH" ->
               "WHEN THE USER SENDS A MESSAGE:\n" \o
               "First, match their query against the loaded " \o obj \o
               " keywords. DO NOT SKIP THIS STEP."
          [] typ = "DISCOVER" ->
               "IF NO MATCH IS FOUND:\n" \o
               "You MUST DISCOVER the answer using available tools. Determine which tool fits and invoke it."
          [] typ = "STORE" ->
               "AFTER SUCCESSFUL DISCOVERY:\n" \o
               "Store what worked. Save the route with its tool, parameters, query, and keywords from the user's question. THIS STEP IS MANDATORY."
          [] typ = "APPLY" ->
               "BEFORE RESPONDING:\n" \o
               "Check for any output preferences (e.g., units) and apply them to the answer. DO NOT SKIP."
          [] typ = "GATE" ->
               "IF " \o upper(comp.condition) \o ":\nProceed with next step. OTHERWISE, skip."
          [] OTHER ->
               "# UNKNOWN INSTRUCTION: " \o entry.original

\* "\n\n".join(blocks)
RECURSIVE join(_)
join(blocks) ==
    IF blocks = << >> THEN ""
    ELSE IF Len(blocks) = 1 THEN blocks[1]
    ELSE blocks[1] \o "\n\n" \o join(Tail(blocks))

-----------------------------------------------------------------------------
(* Bounds and inputs *)

MaxFrags == 3        \* sentences of a generated input text
MaxCalls == 2        \* compile() calls on one object
MaxParsed == 3       \* cap on len(self.parsed) for direct parse() calls
MaxInject == 2       \* edges added to self.graph by hand
MaxSorts == 2        \* direct topological_sort() calls

\* One sentence per instruction type the classifier can give:
\* LOOKUP, MATCH, GATE, DISCOVER, STORE, APPLY, UNKNOWN.
Sentences == <<"First topic", "\\bmatch\\b keyword", "has", "when not found",
               "on success", "before output", "hi">>

\* The delimiters [;,.] with and without white space around them.
Delimiters == <<". ", ",", " ;\n ">>

RECURSIVE TextOf(_, _)
TextOf(ids, k) ==
    IF k > Len(ids) THEN ""
    ELSE Sentences[ids[k]] \o Delimiters[((k - 1) % Len(Delimiters)) + 1] \o TextOf(ids, k + 1)

Example1 ==
    "At conversation start, search memory for domains. When user sends message, match query against keywords."

Inputs ==
    {TextOf(ids, 1) : ids \in UNION {[1..m -> 1..Len(Sentences)] : m \in 0..MaxFrags}}
        \cup {Example1}

\* Texts of the driver that calls the methods one by one: no, one, two and
\* three instructions, with priorities that fall and rise along the ids.
ApiInputs ==
    {" .; ", "hi", "on success, First topic",
     "before output. has; \\bmatch\\b keyword", "First topic; hi; \\bmatch\\b keyword."}

\* The objects of a run: a first BehavioralCompiler and a second one, constructed
\* later on the same text.
Instances == {1, 2}

Labels(patterns) == {patterns[k].typ : k \in 1..Len(patterns)} \cup {""}

\* every component bundle: each field a label of its table, or empty
Bundles ==
    [trigger : Labels(TRIGGER_PATTERNS), action : Labels(ACTION_PATTERNS),
     condition : Labels(CONDITION_PATTERNS), object : Labels(OBJECT_PATTERNS)]

-----------------------------------------------------------------------------
(* Parser *)

\* extract_components is a pure function of the fragment: its values on the
\* fragments of the input texts are tabulated once and looked up afterwards.
KnownFragments == UNION {Range(split_compound(t)) : t \in Inputs \cup ApiInputs}

ComponentsTable == [f \in KnownFragments |-> extract_components(f)]

components_of(instr) ==
    IF instr \in KnownFragments THEN ComponentsTable[instr] ELSE extract_components(instr)

RECURSIVE parse_from(_, _, _, _)
parse_from(instrs, k, ps, idc) ==
    IF k > Len(instrs) THEN [parsed |-> ps, id_counter |-> idc]
    ELSE LET comp == components_of(instrs[k])
             entry == [id |-> idc, original |-> instrs[k], components |-> comp,
                       type |-> classify_instruction(comp)]
         IN  parse_from(instrs, k + 1, Append(ps, entry), idc + 1)

parse(instrs, ps, idc) == parse_from(instrs, 1, ps, idc)

-----------------------------------------------------------------------------
(* bootstrap.py: the state of the script and of its build directory *)

\* {} of Python
EmptyDict == [k \in {} |-> ""]

\* a file that does not exist
NoFile == [exists |-> FALSE, content |-> EmptyDict]

bootstrap == <<args, checkpoint, checkpoint_file, build_files, boot_pc, exit_code,
               stage_results, visited, model_calls, runs, clock>>

\* nothing invoked yet, a build directory without files
BootInit ==
    /\ args = [resume |-> FALSE, force |-> FALSE]
    /\ checkpoint = EmptyDict
    /\ checkpoint_file = NoFile
    /\ build_files = EmptyDict
    /\ boot_pc = "shell"
    /\ exit_code = -1
    /\ stage_results = EmptyDict
    /\ visited = << >>
    /\ model_calls = << >>
    /\ runs = 0
    /\ clock = 0

-----------------------------------------------------------------------------
(* The object *)

\* a call that returned None (or a constructor)
None == [call |-> "", raised |-> FALSE, order |-> << >>, output |-> ""]

\* parsed and id_counter as attributes of the class, shared by all its objects
init_fields_shared(text) ==
    [raw_instructions |-> split_compound(text), parsed |-> parsed, graph |-> {},
     id_counter |-> id_counter]

\* __init__: the fields of a new object
init_fields(text) ==
    [raw_instructions |-> split_compound(text), parsed |-> << >>, graph |-> {}, id_counter |-> 0]

\* the first object, just constructed on one of the texts
InitWith(texts) ==
    /\ raw_text \in texts
    /\ raw_instructions = split_compound(raw_text)
    /\ parsed = << >>
    /\ graph = {}
    /\ id_counter = 0
    /\ pc = "idle"
    /\ caller = "none"
    /\ indeg = << >>
    /\ ready = << >>
    /\ order = << >>
    /\ graph0 = {}
    /\ directives = << >>
    /\ ret = None
    /\ instance = 1
    /\ calls = 0
    /\ sorts = 0
    /\ injected = 0
    /\ returns = << >>
    /\ bundle = [trigger |-> "", action |-> "", condition |-> "", object |-> ""]
    /\ bundle_type = ""
    /\ BootInit

Init == InitWith(Inputs)

InitApi == InitWith(ApiInputs)

sortLocals == <<indeg, ready, order, graph0>>
counters == <<instance, calls, sorts, injected>>
classifier == <<bundle, bundle_type>>

\* a second BehavioralCompiler(raw_text), used from now on
Construct ==
    /\ pc = "idle"
    /\ instance + 1 \in Instances
    /\ LET new == init_fields(raw_text)
       IN  /\ raw_instructions' = new.raw_instructions
           /\ parsed' = new.parsed
           /\ graph' = new.graph
           /\ id_counter' = new.id_counter
    /\ instance' = instance + 1
    /\ calls' = 0
    /\ ret' = None
    /\ UNCHANGED <<raw_text, pc, caller, sortLocals, directives, sorts, injected, returns, classifier, bootstrap>>

\* the effect of self.parse()
DoParse ==
    LET r == parse(raw_instructions, parsed, id_counter)
    IN  /\ parsed' = r.parsed
        /\ id_counter' = r.id_counter

\* the effect of self.build_dependency_graph()
DoBuild == graph' = build_dependency_graph(graph, parsed)

\* lines 148-152 of topological_sort
DoSortBegin ==
    /\ graph0' = graph
    /\ indeg' = InitialIndeg(graph, parsed)
    /\ ready' = InitialReady(InitialIndeg(graph, parsed))
    /\ order' = << >>

(* compile(), statement by statement *)

CompileParse ==
    /\ pc = "idle"
    /\ calls < MaxCalls
    /\ DoParse
    /\ calls' = calls + 1
    /\ pc' = "compile_build"
    /\ UNCHANGED <<raw_text, raw_instructions, graph, caller, sortLocals, directives, ret,
                   instance, sorts, injected, returns, classifier, bootstrap>>

CompileBuild ==
    /\ pc = "compile_build"
    /\ DoBuild
    /\ pc' = "compile_sort"
    /\ UNCHANGED <<raw_text, raw_instructions, parsed, id_counter, caller, sortLocals,
                   directives, ret, counters, returns, classifier, bootstrap>>

CompileSort ==
    /\ pc = "compile_sort"
    /\ DoSortBegin
    /\ caller' = "compile"
    /\ pc' = "sort_loop"
    /\ UNCHANGED <<raw_text, raw_instructions, parsed, graph, id_counter, directives, ret,
                   counters, returns, classifier, bootstrap>>

\* one iteration of "while ready" (lines 153-163)
SortStep ==
    /\ pc = "sort_loop"
    /\ ready # << >>
    /\ LET sorted == SortReady(parsed, ready)
           n == Head(sorted)
           r == Release(n, 0, Len(parsed), indeg, graph, Tail(sorted))
       IN  /\ order' = Append(order, n)
           /\ indeg' = r.indeg
           /\ graph' = r.graph
           /\ ready' = r.ready
    /\ UNCHANGED <<raw_text, raw_instructions, parsed, id_counter, pc, caller, graph0,
                   directives, ret, counters, returns, classifier, bootstrap>>

\* lines 164-166: raise, or return the order to the caller; the locals of the
\* call are gone once it has returned or raised (compile keeps the order)
SortEnd ==
    /\ pc = "sort_loop"
    /\ ready = << >>
    /\ IF Len(order) # Len(parsed)
       THEN /\ ret' = [call |-> IF caller = "compile" THEN "compile" ELSE "topological_sort",
                       raised |-> TRUE, order |-> << >>, output |-> ""]
            /\ order' = << >>
            /\ pc' = "idle"
       ELSE IF caller = "compile"
       THEN /\ pc' = "compile_generate"
            /\ order' = order
            /\ ret' = ret
       ELSE /\ ret' = [call |-> "topological_sort", raised |-> FALSE, order |-> order,
                       output |-> ""]
            /\ order' = << >>
            /\ pc' = "idle"
    /\ indeg' = << >>
    /\ caller' = "none"
    /\ UNCHANGED <<raw_text, raw_instructions, parsed, graph, id_counter, ready, graph0,
                   directives, counters, returns, classifier, bootstrap>>

\* lines 196-197: render the blocks in the order of the sort, join, return
CompileGenerate ==
    /\ pc = "compile_generate"
    /\ directives' = [k \in 1..Len(order) |-> generate_directive(parsed[order[k] + 1])]
    /\ ret' = [call |-> "compile", raised |-> FALSE, order |-> << >>,
               output |-> join(directives')]
    /\ returns' = Append(returns, [instance |-> instance, call |-> calls, parsed |-> parsed,
                                   edges |-> graph0, order |-> order, output |-> ret'.output])
    /\ order' = << >>
    /\ pc' = "idle"
    /\ UNCHANGED <<raw_text, raw_instructions, parsed, graph, id_counter, caller, indeg, ready,
                   graph0, counters, classifier, bootstrap>>

(* the methods called one by one *)

Parse ==
    /\ pc = "idle"
    /\ Len(parsed) + Len(raw_instructions) <= MaxParsed
    /\ DoParse
    /\ ret' = None
    /\ graph0' = {}
    /\ UNCHANGED <<raw_text, raw_instructions, graph, pc, caller, indeg, ready, order,
                   directives, counters, returns, classifier, bootstrap>>

BuildDependencyGraph ==
    /\ pc = "idle"
    /\ DoBuild
    /\ ret' = None
    /\ graph0' = {}
    /\ UNCHANGED <<raw_text, raw_instructions, parsed, id_counter, pc, caller, indeg, ready,
                   order, directives, counters, returns, classifier, bootstrap>>

\* a caller's self.graph[v].add(u), u and v ids of parsed instructions
InjectEdge ==
    /\ pc = "idle"
    /\ injected < MaxInject
    /\ \E u \in Nodes(parsed), v \in Nodes(parsed) :
          /\ <<u, v>> \notin graph
          /\ graph' = graph \cup {<<u, v>>}
    /\ injected' = injected + 1
    /\ ret' = None
    /\ graph0' = {}
    /\ UNCHANGED <<raw_text, raw_instructions, parsed, id_counter, pc, caller, indeg, ready,
                   order, directives, instance, calls, sorts, returns, classifier, bootstrap>>

TopologicalSort ==
    /\ pc = "idle"
    /\ sorts < MaxSorts
    /\ DoSortBegin
    /\ sorts' = sorts + 1
    /\ caller' = "api"
    /\ pc' = "sort_loop"
    /\ UNCHANGED <<raw_text, raw_instructions, parsed, graph, id_counter, directives, ret,
                   instance, calls, injected, returns, classifier, bootstrap>>

Next ==
    \/ Construct
    \/ CompileParse
    \/ CompileBuild
    \/ CompileSort
    \/ SortStep
    \/ SortEnd
    \/ CompileGenerate

Spec == Init /\ [][Next]_vars

\* compile() called by the driver that also calls the methods one by one
ApiCompileParse ==
    /\ Len(parsed) + Len(raw_instructions) <= MaxParsed
    /\ CompileParse

NextApi ==
    \/ Parse
    \/ BuildDependencyGraph
    \/ InjectEdge
    \/ TopologicalSort
    \/ ApiCompileParse
    \/ CompileBuild
    \/ CompileSort
    \/ SortStep
    \/ SortEnd
    \/ CompileGenerate

SpecApi == InitApi /\ [][NextApi]_vars

(* the classifier applied to one component bundle *)

InitBundle ==
    /\ raw_text = ""
    /\ raw_instructions = << >>
    /\ parsed = << >>
    /\ graph = {}
    /\ id_counter = 0
    /\ pc = "classify"
    /\ caller = "none"
    /\ indeg = << >>
    /\ ready = << >>
    /\ order = << >>
    /\ graph0 = {}
    /\ directives = << >>
    /\ ret = None
    /\ instance = 1
    /\ calls = 0
    /\ sorts = 0
    /\ injected = 0
    /\ returns = << >>
    /\ bundle \in Bundles
    /\ bundle_type = ""
    /\ BootInit

Classify ==
    /\ pc = "classify"
    /\ bundle_type' = classify_instruction(bundle)
    /\ pc' = "classified"
    /\ UNCHANGED <<raw_text, raw_instructions, parsed, graph, id_counter, caller, sortLocals,
                   directives, ret, counters, returns, bundle, bootstrap>>

NextClassify == Classify

SpecClassify == InitBundle /\ [][NextClassify]_vars

-----------------------------------------------------------------------------
(* bootstrap.py: helpers *)

\* text.find(pat, start), positions from 1 and 0 for "not found"
RECURSIVE IndexOf(_, _, _)
IndexOf(text, pat, k) ==
    IF k + Len(pat) - 1 > Len(text) THEN 0
    ELSE IF MatchAt(text, k, pat) THEN k
    ELSE IndexOf(text, pat, k + 1)

\* pat in text
Contains(text, pat) == IndexOf(text, pat, 1) # 0

\* text.split('\n')[0]
FirstLine(text) ==
    LET k == IndexOf(text, "\n", 1)
    IN  IF k = 0 THEN text ELSE SubSeq(text, 1, k - 1)

Formats == <<"json", "xml", "yaml", "s-expression", "pseudocode">>

\* lines 255-261: the first listed format named in the first line, else json
RECURSIVE FormatFrom(_, _)
FormatFrom(first_line, k) ==
    IF k > Len(Formats) THEN "json"
    ELSE IF Contains(first_line, Formats[k]) THEN Formats[k]
    ELSE FormatFrom(first_line, k + 1)

detect_format(response) == FormatFrom(lower(strip(FirstLine(response))), 1)

\* re.search(begin \s* ([\s\S]*?) \s* end): the first begin marker, the first
\* end marker after it, the text between them stripped; found = FALSE raises
extract_between_markers(text, begin_marker, end_marker) ==
    LET b == IndexOf(text, begin_marker, 1)
        e == IF b = 0 THEN 0 ELSE IndexOf(text, end_marker, b + Len(begin_marker))
    IN  IF e = 0 THEN [found |-> FALSE, content |-> ""]
        ELSE [found |-> TRUE, content |-> strip(SubSeq(text, b + Len(begin_marker), e - 1))]

\* d[k] = v on a dict
Put(d, k, v) == [x \in (DOMAIN d) \cup {k} |-> IF x = k THEN v ELSE d[x]]

\* f"stage{stage}"
StageKey(stage) ==
    CASE stage = 1 -> "stage1"
      [] stage = 2 -> "stage2"
      [] stage = 3 -> "stage3"
      [] stage = 4 -> "stage4"
      [] stage = 5 -> "stage5"

\* the file after save_checkpoint(stage, data, build_dir) at time now; json.dump
\* followed by json.load gives back a dict of strings and booleans as it was
save_checkpoint(stage, data, file, now) ==
    LET loaded == IF file.exists THEN file.content ELSE EmptyDict
    IN  [exists |-> TRUE,
         content |-> Put(loaded, StageKey(stage),
                         [completed |-> TRUE, timestamp |-> now, data |-> data])]

load_checkpoint(file) == IF file.exists THEN file.content ELSE EmptyDict

\* the skip every stage but the stage 4 is guarded by, --force ignored
stage_complete_ignoring_force(stage, ckpt, a) == StageKey(stage) \in DOMAIN ckpt

\* "stageN" in checkpoint and not args.force
stage_complete(stage, ckpt, a) == StageKey(stage) \in DOMAIN ckpt /\ ~a.force

required_terms == <<"Doc2JSONCompiler", "classificationRules", "extractionRules", "outputSchema">>

\* line 365: the required terms the compiler text does not hold
missing(compiler) ==
    {required_terms[k] : k \in {j \in 1..Len(required_terms) : ~Contains(compiler, required_terms[j])}}

-----------------------------------------------------------------------------
(* bootstrap.py: main() and its stages.  The shepherd server runs exactly   *)
(* while boot_pc is not "shell": start_server() precedes stage 1 and the     *)
(* finally clause stops it on every way out.                                 *)

MaxRuns == 3

\* what the model may answer to the prompt of each stage
Stage1Responses == {"YAML\njson is noisy", "no preference"}
Stage2Responses == {"Rules: classify, then extract."}
Stage3Responses ==
    {"---BEGIN COMPILER---\nDoc2JSONCompiler: classificationRules, extractionRules, outputSchema\n---END COMPILER---",
     "Here it is.\n---BEGIN COMPILER---\n Doc2JSONCompiler: classificationRules, outputSchema \n---END COMPILER---\n",
     "I cannot do that."}
Stage5Responses == {"---BEGIN BIOS---\nboot rules\n---END BIOS---", "BIOS: boot rules"}

\* call_shepherd: a response, or BootstrapError (exit status not 0, time-out)
Replies(responses) ==
    {[ok |-> FALSE, response |-> ""]} \cup {[ok |-> TRUE, response |-> r] : r \in responses}

compiler == <<raw_text, raw_instructions, parsed, graph, id_counter, pc, caller,
              indeg, ready, order, graph0, directives, ret,
              instance, calls, sorts, injected, returns, bundle, bundle_type>>

\* except BootstrapError: sys.exit(1), the stage left behind what it had written
Fail ==
    /\ boot_pc' = "shell"
    /\ exit_code' = 1

\* lines 448-478: the arguments, the checkpoint, the server
MainBegin ==
    /\ boot_pc = "shell"
    /\ runs < MaxRuns
    /\ runs' = runs + 1
    /\ \E resume \in BOOLEAN, force \in BOOLEAN :
          /\ args' = [resume |-> resume, force |-> force]
          /\ checkpoint' = IF resume THEN load_checkpoint(checkpoint_file) ELSE EmptyDict
    /\ stage_results' = EmptyDict
    /\ visited' = << >>
    /\ model_calls' = << >>
    /\ \E started \in BOOLEAN :
          IF started THEN boot_pc' = "stage1" /\ exit_code' = -1
          ELSE Fail
    /\ UNCHANGED <<checkpoint_file, build_files, clock, compiler>>

stage1_format_preference ==
    /\ boot_pc = "stage1"
    /\ visited' = Append(visited, 1)
    /\ IF stage_complete(1, checkpoint, args)
       THEN /\ stage_results' = Put(stage_results, 1, checkpoint["stage1"].data)
            /\ boot_pc' = "stage2"
            /\ UNCHANGED <<model_calls, checkpoint_file, clock, exit_code>>
       ELSE /\ model_calls' = Append(model_calls, 1)
            /\ \E reply \in Replies(Stage1Responses) :
                  IF ~reply.ok
                  THEN Fail /\ UNCHANGED <<stage_results, checkpoint_file, clock>>
                  ELSE LET result == [format |-> detect_format(reply.response),
                                      reasoning |-> reply.response]
                       IN  /\ clock' = clock + 1
                           /\ checkpoint_file' = save_checkpoint(1, result, checkpoint_file, clock')
                           /\ stage_results' = Put(stage_results, 1, result)
                           /\ boot_pc' = "stage2"
                           /\ UNCHANGED exit_code
    /\ UNCHANGED <<args, checkpoint, build_files, runs, compiler>>

stage2_compiler_rules ==
    /\ boot_pc = "stage2"
    /\ visited' = Append(visited, 2)
    /\ IF stage_complete(2, checkpoint, args)
       THEN /\ stage_results' = Put(stage_results, 2, checkpoint["stage2"].data)
            /\ boot_pc' = "stage3"
            /\ UNCHANGED <<model_calls, checkpoint_file, build_files, clock, exit_code>>
       ELSE /\ model_calls' = Append(model_calls, 2)
            /\ \E reply \in Replies(Stage2Responses) :
                  IF ~reply.ok
                  THEN Fail /\ UNCHANGED <<stage_results, checkpoint_file, build_files, clock>>
                  ELSE LET result == [spec |-> reply.response,
                                      spec_file |-> "build/compiler-spec.md"]
                       IN  /\ clock' = clock + 1
                           /\ build_files' = Put(build_files, "compiler-spec.md",
                                                 [generated |-> clock', text |-> reply.response])
                           /\ checkpoint_file' = save_checkpoint(2, result, checkpoint_file, clock')
                           /\ stage_results' = Put(stage_results, 2, result)
                           /\ boot_pc' = "stage3"
                           /\ UNCHANGED exit_code
    /\ UNCHANGED <<args, checkpoint, runs, compiler>>

stage3_self_compile ==
    /\ boot_pc = "stage3"
    /\ visited' = Append(visited, 3)
    /\ IF stage_complete(3, checkpoint, args)
       THEN /\ stage_results' = Put(stage_results, 3, checkpoint["stage3"].data)
            /\ boot_pc' = "stage4"
            /\ UNCHANGED <<model_calls, checkpoint_file, build_files, clock, exit_code>>
       ELSE /\ model_calls' = Append(model_calls, 3)
            /\ \E reply \in Replies(Stage3Responses) :
                  LET m == extract_between_markers(reply.response, "---BEGIN COMPILER---",
                                                   "---END COMPILER---")
                      result == [compiler |-> m.content,
                                 compiler_file |-> "build/compiler.txt",
                                 format |-> stage_results[1].format]
                  IN  IF ~reply.ok \/ ~m.found
                      THEN Fail /\ UNCHANGED <<stage_results, checkpoint_file, build_files, clock>>
                      ELSE /\ clock' = clock + 1
                           /\ build_files' = Put(build_files, "compiler.txt",
                                                 [generated |-> 0, text |-> m.content])
                           /\ checkpoint_file' = save_checkpoint(3, result, checkpoint_file, clock')
                           /\ stage_results' = Put(stage_results, 3, result)
                           /\ boot_pc' = "stage4"
                           /\ UNCHANGED exit_code
    /\ UNCHANGED <<args, checkpoint, runs, compiler>>

\* the compiler is the str extract_between_markers returned, whatever the
\* format: the branch of lines 350-361 needs a dict and is never taken
stage4_validate ==
    /\ boot_pc = "stage4"
    /\ visited' = Append(visited, 4)
    /\ IF missing(stage_results[3].compiler) # {}
       THEN Fail
       ELSE boot_pc' = "stage5" /\ UNCHANGED exit_code
    /\ UNCHANGED <<args, checkpoint, checkpoint_file, build_files, stage_results,
                   model_calls, runs, clock, compiler>>

\* after stage 5 main() logs the result and falls off its end: exit status 0
stage5_build_bios ==
    /\ boot_pc = "stage5"
    /\ visited' = Append(visited, 5)
    /\ IF stage_complete(5, checkpoint, args)
       THEN /\ stage_results' = Put(stage_results, 5, checkpoint["stage5"].data)
            /\ boot_pc' = "shell"
            /\ exit_code' = 0
            /\ UNCHANGED <<model_calls, checkpoint_file, build_files, clock>>
       ELSE /\ model_calls' = Append(model_calls, 5)
            /\ \E reply \in Replies(Stage5Responses) :
                  LET m == extract_between_markers(reply.response, "---BEGIN BIOS---",
                                                   "---END BIOS---")
                      result == [bios |-> m.content, bios_file |-> "build/bios.txt"]
                  IN  IF ~reply.ok \/ ~m.found
                      THEN Fail /\ UNCHANGED <<stage_results, checkpoint_file, build_files, clock>>
                      ELSE /\ clock' = clock + 1
                           /\ build_files' = Put(build_files, "bios.txt",
                                                 [generated |-> 0, text |-> m.content])
                           /\ checkpoint_file' = save_checkpoint(5, result, checkpoint_file, clock')
                           /\ stage_results' = Put(stage_results, 5, result)
                           /\ boot_pc' = "shell"
                           /\ exit_code' = 0
    /\ UNCHANGED <<args, checkpoint, runs, compiler>>

InitBoot == InitWith({""})

NextBoot ==
    \/ MainBegin
    \/ stage1_format_preference
    \/ stage2_compiler_rules
    \/ stage3_self_compile
    \/ stage4_validate
    \/ stage5_build_bios

SpecBoot == InitBoot /\ [][NextBoot]_vars

-----------------------------------------------------------------------------
(* Properties *)

Position(seq, x) == CHOOSE k \in 1..Len(seq) : seq[k] = x

NoDuplicates(seq) == \A i, j \in 1..Len(seq) : seq[i] = seq[j] => i = j

Ids(ps) == {ps[k].id : k \in 1..Len(ps)}

Types(ps) == [k \in 1..Len(ps) |-> ps[k].type]

\* the first line of a rendered block names the type it was rendered for
IsLookupBlock(b)   == MatchAt(b, 1, "AT THE START OF EVERY CONVERSATION:\n")
IsMatchBlock(b)    == MatchAt(b, 1, "WHEN THE USER SENDS A MESSAGE:\n")
IsDiscoverBlock(b) == MatchAt(b, 1, "IF NO MATCH IS FOUND:\n")
IsStoreBlock(b)    == MatchAt(b, 1, "AFTER SUCCESSFUL DISCOVERY:\n")

\* compile() has just returned its output
CompileReturned == pc = "idle" /\ ret.call = "compile" /\ ~ret.raised

\* topological_sort() has just handed its order to compile()
SortReturnedToCompile == pc = "compile_generate"

\* C1: the order topological_sort() returns after parse() and
\* build_dependency_graph() holds every instruction id exactly once, and for
\* every edge u -> v of the graph as it was before the sort, u comes before v.
C1_OrderRespectsEdges ==
    SortReturnedToCompile =>
        /\ Len(order) = Len(parsed)
        /\ NoDuplicates(order)
        /\ Range(order) = Ids(parsed)
        /\ \A e \in graph0 : Position(order, e[1]) < Position(order, e[2])

C1_Witness ==
    /\ SortReturnedToCompile
    /\ Len(order) >= 3
    /\ \E e \in graph0 : e[2] > e[1] + 1

\* the authored types STORE, DISCOVER, MATCH of a first compile() that returned
C2_StoreDiscoverMatch ==
    /\ CompileReturned
    /\ Types(parsed) = <<"STORE", "DISCOVER", "MATCH">>
    /\ Ids(parsed) = {0, 1, 2}

\* C2 as claimed: for fragments of types STORE, DISCOVER, MATCH (ids 0, 1, 2)
\* compile() emits the MATCH block, then the DISCOVER block, then the STORE block.
C2_TypeOrderOverrides ==
    C2_StoreDiscoverMatch =>
        /\ Len(directives) = 3
        /\ IsMatchBlock(directives[1])
        /\ IsDiscoverBlock(directives[2])
        /\ IsStoreBlock(directives[3])
        /\ ret.output = directives[1] \o "\n\n" \o directives[2] \o "\n\n" \o directives[3]

\* C2 as amended: for fragments of types STORE, DISCOVER, MATCH (ids 0, 1, 2)
\* compile() emits the blocks in the authored order, STORE, DISCOVER, MATCH: the
\* sequential edges decide, no type-dependency edge points to a later id.
C2_AuthoredOrderKept ==
    C2_StoreDiscoverMatch =>
        /\ Len(directives) = 3
        /\ IsStoreBlock(directives[1])
        /\ IsDiscoverBlock(directives[2])
        /\ IsMatchBlock(directives[3])
        /\ ret.output = directives[1] \o "\n\n" \o directives[2] \o "\n\n" \o directives[3]

C2_Witness == C2_StoreDiscoverMatch /\ Len(directives) = 3

\* C3: instruction and graph state is scoped to one compile() call: the
\* instruction list never holds more entries than the Splitter produced
\* fragments, ids start at 0 in every call, and every compile() call on an
\* object returns what the first call on it returned.
C3_StateScopedToCall ==
    /\ Len(parsed) <= Len(raw_instructions)
    /\ Ids(parsed) \subseteq 0..(Len(raw_instructions) - 1)
    /\ \A i, j \in 1..Len(returns) :
          returns[i].instance = returns[j].instance => returns[i].output = returns[j].output

\* the nodes reached from the nodes of S along the edges of g
Successors(g, S) == {e[2] : e \in {x \in g : x[1] \in S}}

RECURSIVE Closure(_, _)
Closure(g, S) ==
    LET T == S \cup Successors(g, S)
    IN  IF T = S THEN S ELSE Closure(g, T)

\* some edge u -> v of g has u reachable from v
HasCycle(g) == \E e \in g : e[1] \in Closure(g, {e[2]})

\* a sort, called directly or by compile(), has just returned or raised
SortFinished == pc = "idle" /\ ret.call \in {"topological_sort", "compile"}

\* C4: topological_sort() raises the circular-dependency error exactly when the
\* graph over the ids 0..n-1 it was given holds a cycle; when it raises no order
\* is returned, and a compile() that runs into it returns no output.
C4_RaisesIffCycle ==
    SortFinished =>
        /\ ret.raised <=> HasCycle(graph0)
        /\ ret.raised => /\ ret.order = << >>
                         /\ ret.output = ""
                         /\ ret.call = "compile" =>
                               \A k \in 1..Len(returns) :
                                  ~(returns[k].instance = instance /\ returns[k].call = calls)
        /\ (~ret.raised /\ ret.call = "topological_sort") => Len(ret.order) = Len(parsed)

\* compile() raised on a graph in which two nodes depend on each other
C4_Witness ==
    /\ SortFinished
    /\ ret.call = "compile"
    /\ ret.raised
    /\ \E a, b \in Nodes(parsed) : a # b /\ <<a, b>> \in graph0 /\ <<b, a>> \in graph0

\* C5: compile() renders and joins exactly one block per non-empty fragment the
\* Splitter produced, and no fragment gives the empty output.
C5_OneBlockPerFragment ==
    CompileReturned =>
        /\ Len(directives) = Len(raw_instructions)
        /\ ret.output = join(directives)
        /\ raw_instructions = << >> => ret.output = ""

\* the rules of the classifier as the claim lists them
RetrievalLike == {"retrieve", "search"}
ComparisonLike == {"compare", "map"}

RuleHolds(k, b) ==
    CASE k = 1 -> b.action \in RetrievalLike /\ b.object = "memory"
      [] k = 2 -> b.action = "match" \/ (b.action \in ComparisonLike /\ b.object \in {"domain", "route"})
      [] k = 3 -> b.action \in {"discover", "tool_call"}
      [] k = 4 -> b.action \in {"store", "create"}
      [] k = 5 -> b.action = "transform"
      [] k = 6 -> b.condition # ""
      [] k = 7 -> TRUE

RuleType(k, b) ==
    CASE k = 1 -> "LOOKUP"
      [] k = 2 -> "MATCH"
      [] k = 3 -> "DISCOVER"
      [] k = 4 -> "STORE"
      [] k = 5 -> "APPLY"
      [] k = 6 -> "GATE"
      [] k = 7 -> IF b.trigger = "conversation_start" THEN "LOOKUP"
                  ELSE IF b.trigger = "on_miss" THEN "DISCOVER"
                  ELSE IF b.trigger = "on_success" THEN "STORE"
                  ELSE IF b.trigger = "pre_response" THEN "APPLY"
                  ELSE "UNKNOWN"

FirstRule(b) == CHOOSE k \in 1..7 : RuleHolds(k, b) /\ \A j \in 1..(k - 1) : ~RuleHolds(j, b)

\* C6: for every component bundle classify_instruction returns the type of the
\* first rule, in the fixed order of the seven rules, that the bundle satisfies.
C6_FirstRuleWins ==
    pc = "classified" => bundle_type = RuleType(FirstRule(bundle), bundle)

\* a bundle that satisfies rules 4, 6 and 7 at once
C6_Witness ==
    /\ pc = "classified"
    /\ bundle.action = "store"
    /\ bundle.condition = "equality"
    /\ bundle.trigger = "on_miss"
    /\ bundle_type = "STORE"

\* the priority table as the claim gives it
ClaimedPriority(typ) ==
    CASE typ = "LOOKUP"   -> 1
      [] typ = "MATCH"    -> 2
      [] typ = "GATE"     -> 3
      [] typ = "DISCOVER" -> 4
      [] typ = "STORE"    -> 5
      [] typ = "APPLY"    -> 6
      [] typ = "UNKNOWN"  -> 7

\* not yet emitted, and every predecessor in the graph given to the sort emitted
ReadyNodes == {v \in Nodes(parsed) \ Range(order) : Deps(graph0, v) \subseteq Range(order)}

ClaimedKeyLess(a, b) ==
    \/ ClaimedPriority(parsed[a + 1].type) < ClaimedPriority(parsed[b + 1].type)
    \/ /\ ClaimedPriority(parsed[a + 1].type) = ClaimedPriority(parsed[b + 1].type)
       /\ a < b

MinReady == CHOOSE x \in ReadyNodes : \A y \in ReadyNodes \ {x} : ClaimedKeyLess(x, y)

\* C7: every step of topological_sort() emits the ready node (not yet emitted,
\* all predecessors emitted) with the least key (priority(type), id).
C7_LeastKeyEmitted ==
    [][(pc = "sort_loop" /\ ready # << >>) => order' = Append(order, MinReady)]_vars

\* several nodes are ready and the priority, not the id, decides among them
C7_Witness ==
    /\ pc = "sort_loop"
    /\ ~HasCycle(graph0)
    /\ Cardinality(ReadyNodes) >= 2
    /\ \E y \in ReadyNodes : y < MinReady

C9_Example1 ==
    raw_text = Example1 =>
        /\ Len(raw_instructions) = 2
        /\ (CompileReturned /\ calls = 1) =>
              /\ Types(parsed) = <<"LOOKUP", "MATCH">>
              /\ Len(directives) = 2
              /\ IsLookupBlock(directives[1])
              /\ IsMatchBlock(directives[2])

\* C10: with parse() and build_dependency_graph() alone filling the graph, every
\* edge u -> v has u < v, so no sort and no compile() raises.
C10_ForwardEdges ==
    injected = 0 =>
        /\ \A e \in graph : e[1] < e[2]
        /\ ~HasCycle(graph)
        /\ ~ret.raised

\* repeated parse() calls, then a build that adds a type-dependency edge
C10_Witness ==
    /\ injected = 0
    /\ Len(parsed) = 3
    /\ <<0, 2>> \in graph
    /\ <<1, 2>> \in graph

\* the type-dependency table as the claim writes it out
ClaimedRequires(typ) ==
    IF typ = "LOOKUP" THEN {}
    ELSE IF typ = "MATCH" THEN {"LOOKUP"}
    ELSE IF typ = "DISCOVER" THEN {"MATCH"}
    ELSE IF typ = "STORE" THEN {"DISCOVER"}
    ELSE IF typ = "APPLY" THEN {"MATCH", "DISCOVER"}
    ELSE {}

\* the predecessors the claim gives instruction v (an id) of the list ps
ClaimedPredecessors(ps, v) ==
    {u \in Nodes(ps) : u < v /\ ps[u + 1].type \in ClaimedRequires(ps[v + 1].type)}
        \cup (IF v >= 1 THEN {v - 1} ELSE {})

\* compile() has parsed the text and built the graph, the sort has not begun
GraphBuilt == pc = "compile_sort"

\* C11: after build_dependency_graph() on a parsed instruction list the
\* predecessor set of every instruction v is exactly the earlier instructions
\* whose type is in the type-dependency table entry of v's type, together with
\* v - 1 when v >= 1; the graph holds no other edge.
C11_PredecessorSets ==
    GraphBuilt =>
        /\ \A k \in 1..Len(parsed) : parsed[k].id = k - 1
        /\ \A v \in Nodes(parsed) : Deps(graph, v) = ClaimedPredecessors(parsed, v)
        /\ \A e \in graph : e[1] \in Nodes(parsed) /\ e[2] \in Nodes(parsed)

\* a fresh list MATCH, DISCOVER, APPLY: the APPLY instruction gets both type
\* edges, one of them to an instruction that is not its neighbour
C11_Witness ==
    /\ GraphBuilt
    /\ calls = 1
    /\ Types(parsed) = <<"MATCH", "DISCOVER", "APPLY">>
    /\ Deps(graph, 2) = {0, 1}
    /\ Deps(graph, 1) = {0}
    /\ Deps(graph, 0) = {}

\* the ids 0, 1, ..., n-1 in this order
Authored(n) == [k \in 1..n |-> k - 1]

\* compile() is in the main loop of the sort and has not emitted every node
SortInProgress == pc = "sort_loop" /\ caller = "compile" /\ Len(order) < Len(parsed)

\* C12: compile() on a fresh object emits the directives in the original
\* fragment order, ids 0, 1, ..., n-1: at every step of the sort exactly one
\* node is ready, the one whose id is the number of nodes emitted so far, so
\* neither the priority table nor the type-dependency edges change the order.
C12_AuthoredOrder ==
    /\ SortInProgress => (ready = <<Len(order)>> /\ order = Authored(Len(order)))
    /\ SortReturnedToCompile => order = Authored(Len(parsed))
    /\ (CompileReturned /\ calls = 1) =>
          /\ Len(directives) = Len(raw_instructions)
          /\ \A k \in 1..Len(directives) :
                /\ parsed[k].id = k - 1
                /\ parsed[k].original = raw_instructions[k]
                /\ directives[k] = generate_directive(parsed[k])
          /\ ret.output = join(directives)

\* a fresh object returned the blocks of UNKNOWN, APPLY, LOOKUP fragments: the
\* priorities alone would give the reverse order
C12_Witness ==
    /\ CompileReturned
    /\ calls = 1
    /\ Types(parsed) = <<"UNKNOWN", "APPLY", "LOOKUP">>
    /\ Len(directives) = 3
    /\ IsLookupBlock(directives[3])
    /\ PRIORITY(parsed[3].type) < PRIORITY(parsed[2].type)
    /\ PRIORITY(parsed[2].type) < PRIORITY(parsed[1].type)

\* topological_sort() returned an order, to its caller or to compile()
SortReturnedOrder ==
    \/ pc = "idle" /\ ret.call = "topological_sort" /\ ~ret.raised
    \/ SortReturnedToCompile
    \/ CompileReturned

\* topological_sort() is running, called right after a call that returned an
\* order: no parse(), no build and no added edge lies between the two
SortAgainWithoutRebuild ==
    /\ pc = "sort_loop"
    /\ caller = "api"
    /\ ret.call \in {"topological_sort", "compile"}
    /\ ~ret.raised

\* seq holds every id of the instruction list once, ordered by (priority, id)
OrderedByKeyAlone(seq) ==
    /\ Len(seq) = Len(parsed)
    /\ Range(seq) = Nodes(parsed)
    /\ \A i, j \in 1..Len(seq) : i < j => ClaimedKeyLess(seq[i], seq[j])

\* C13: topological_sort() consumes the graph it sorts: when it returns an
\* order every predecessor set of self.graph is empty, so a topological_sort()
\* called next without a rebuild starts from the empty graph, and a sort of the
\* empty graph returns the ids ordered by (priority(type), id) alone.
C13_SortConsumesGraph ==
    /\ SortReturnedOrder => graph = {}
    /\ SortAgainWithoutRebuild => graph0 = {}
    /\ (pc = "idle" /\ ret.call = "topological_sort" /\ ~ret.raised /\ graph0 = {}) =>
          OrderedByKeyAlone(ret.order)

\* compile() sorted the built graph of a LOOKUP, UNKNOWN, MATCH list; the
\* topological_sort() called next, nothing rebuilt, put an edge of that graph
\* the wrong way round
C13_Witness ==
    /\ pc = "idle"
    /\ ret.call = "topological_sort"
    /\ ~ret.raised
    /\ graph0 = {}
    /\ injected = 0
    /\ Len(returns) = 1
    /\ returns[1].parsed = parsed
    /\ Len(parsed) = 3
    /\ \E e \in returns[1].edges : Position(ret.order, e[2]) < Position(ret.order, e[1])

\* the stages in the order main() names them
StageOrder == <<1, 2, 3, 4, 5>>

\* the stages that keep a checkpoint
Checkpointed == {1, 2, 3, 5}

\* the stage main() is about to call
AtStage(n) == boot_pc = StageKey(n)

\* the entries of a checkpoint file, none when the file does not exist
Entries(file) == IF file.exists THEN file.content ELSE EmptyDict

\* stage n has its entry in the checkpoint loaded at start-up and --force is not set
Saved(n) == StageKey(n) \in DOMAIN checkpoint /\ ~args.force

\* the step of a checkpointed stage n that returns the saved data
ReturnsSaved(n) ==
    /\ model_calls' = model_calls
    /\ checkpoint_file' = checkpoint_file
    /\ stage_results' = Put(stage_results, n, checkpoint[StageKey(n)].data)
    /\ exit_code' # 1

\* the step of a checkpointed stage n that calls the model: it fails and leaves
\* the checkpoint file as it is, or succeeds and writes the entry of stage n, a
\* newer one than every entry of the file, and no other
RunsStage(n) ==
    /\ model_calls' = Append(model_calls, n)
    /\ \/ /\ exit_code' = 1
          /\ boot_pc' = "shell"
          /\ checkpoint_file' = checkpoint_file
       \/ /\ exit_code' # 1
          /\ n \in DOMAIN stage_results'
          /\ checkpoint_file'.exists
          /\ DOMAIN checkpoint_file'.content = DOMAIN Entries(checkpoint_file) \cup {StageKey(n)}
          /\ checkpoint_file'.content[StageKey(n)].completed
          /\ checkpoint_file'.content[StageKey(n)].data = stage_results'[n]
          /\ \A k \in DOMAIN Entries(checkpoint_file) :
                /\ Entries(checkpoint_file)[k].timestamp < checkpoint_file'.content[StageKey(n)].timestamp
                /\ k # StageKey(n) => checkpoint_file'.content[k] = Entries(checkpoint_file)[k]

\* one step of main(), as the claim describes it
C14_Step ==
    /\ (boot_pc = "shell" /\ boot_pc' # "shell") =>
          /\ checkpoint' = (IF args'.resume THEN Entries(checkpoint_file) ELSE EmptyDict)
          /\ checkpoint_file' = checkpoint_file
    /\ \A n \in Checkpointed :
          (AtStage(n) /\ ~AtStage(n)') =>
              /\ visited' = Append(visited, n)
              /\ checkpoint' = checkpoint
              /\ args' = args
              /\ IF Saved(n) THEN ReturnsSaved(n) ELSE RunsStage(n)
    /\ (AtStage(4) /\ ~AtStage(4)') =>
          /\ visited' = Append(visited, 4)
          /\ model_calls' = model_calls
          /\ checkpoint_file' = checkpoint_file
          /\ checkpoint' = checkpoint

\* what holds of main() at every moment
C14_Always ==
    /\ Len(visited) <= Len(StageOrder)
    /\ visited = SubSeq(StageOrder, 1, Len(visited))
    /\ \A n \in 1..Len(StageOrder) : AtStage(n) => Len(visited) = n - 1
    /\ ~args.resume => checkpoint = EmptyDict
    /\ StageKey(4) \notin DOMAIN checkpoint
    /\ StageKey(4) \notin DOMAIN Entries(checkpoint_file)
    /\ 4 \notin Range(model_calls)

\* C14: main() visits the stages in the order 1, 2, 3, 4, 5; a stage N of 1, 2,
\* 3, 5 returns its saved data, calling no model and writing no checkpoint,
\* exactly when the checkpoint loaded at start-up (empty without --resume) holds
\* stageN and --force is not set; otherwise it calls the model and writes its
\* stageN entry only when it succeeded, the other entries left as they were;
\* stage 4 keeps no checkpoint and runs in every invocation before stage 5.
C14_Checkpoints == []C14_Always /\ [][C14_Step]_vars

\* a resumed invocation returned the saved data of the stages 1, 2, 3, ran the
\* validation, called the model for stage 5 alone and wrote the stage5 entry
C14_Witness ==
    /\ args.resume
    /\ ~args.force
    /\ visited = StageOrder
    /\ model_calls = <<5>>
    /\ exit_code = 0
    /\ DOMAIN checkpoint = {"stage1", "stage2", "stage3"}
    /\ DOMAIN Entries(checkpoint_file) = {"stage1", "stage2", "stage3", "stage5"}
    /\ \A n \in {1, 2, 3} : stage_results[n] = checkpoint[StageKey(n)].data

====
